---- MODULE Spec2Model ----
(***************************************************************************)
(* Verification model of the rsc calculator sources:                       *)
(*   src/src/bignum.rs    BigNum, the digit-array decimal number           *)
(*   src/src/lexer.rs     tokenize                                         *)
(*   src/src/computer.rs  compute                                          *)
(*   src/src/bin/main.rs  get_variant_ord / print_vars                     *)
(* Each component is a state machine of its own (Spec, SpecParse, SpecLex, *)
(* SpecVars, SpecCompute); the variables of the components a specification *)
(* does not exercise stay at their idle values.                            *)
(***************************************************************************)
EXTENDS Integers, Sequences, FiniteSets, TLC

VARIABLES
    left, right,        \* BigNum.left (least-significant digit first), BigNum.right
    lastOp,             \* history: the last BigNum operation, its receiver before and its operand
    nops,               \* history: number of add_left / add_right calls so far
    text, parsed,       \* from_str: the input bytes and the outcome
    overflowChecks,     \* from_str: whether the build traps u8 overflow (debug) or wraps (release)
    chars, i, tokens, lexResult,   \* tokenize: input, scan index, token vector, outcome
    vars, listing,      \* print_vars: the interpreter's variable map and the printed lines
    expr, computed      \* compute: the expression tree and the outcome

allVars == <<left, right, lastOp, nops, text, parsed, overflowChecks,
             chars, i, tokens, lexResult, vars, listing, expr, computed>>

numVars     == <<left, right, lastOp, nops>>
parseVars   == <<text, parsed, overflowChecks>>
lexVars     == <<chars, i, tokens, lexResult>>
printVars   == <<vars, listing>>
computeVars == <<expr, computed>>

(***************************************************************************)
(* Bounds of the model.                                                    *)
(***************************************************************************)
MaxLen == 2         \* longest digit sequence given to from_raw, add_left, add_right
MaxOps == 2         \* add_left / add_right calls per behaviour

\* The digits operands are drawn from: no carry (0+1, 1+8), a sum of exactly
\* ten (9+1), sums of sixteen and more (8+8, 9+9).
OperandDigits == {0, 1, 8, 9}

RECURSIVE SeqsUpTo(_, _)
SeqsUpTo(S, n) ==
    IF n = 0 THEN {<<>>}
    ELSE LET shorter == SeqsUpTo(S, n - 1)
         IN  shorter \cup {Append(s, x) : s \in {t \in shorter : Len(t) = n - 1}, x \in S}

DigitSeqs == SeqsUpTo(OperandDigits, MaxLen)

MaxText == 4        \* longest text given to from_str
MaxZeros == 2       \* most zeros appended to a text when comparing parses

\* The bytes texts are drawn from: '-' (below '0'), '.', '0', '1', '9', 'a'.
TextBytes == {45, 46, 48, 49, 57, 97}

Texts == SeqsUpTo(TextBytes, MaxText)

MaxInput == 3       \* longest input given to tokenize

\* The characters inputs are drawn from: letters that spell pi, Pi, e, sin,
\* Sin and other words, a digit, the radix point, an operator, a blank and a
\* character no rule accepts.
InputChars == {"p", "i", "P", "e", "s", "n", "S", "x", "2", ".", "+", " ", "&"}

Inputs == SeqsUpTo(InputChars, MaxInput)

MaxVars == 3        \* identifiers the variable map may bind
MaxNum == 2         \* largest numeric value bound to a variable

VarNames == <<"x", "f", "y", "g", "z">>
Ids == {VarNames[k] : k \in 1..MaxVars}

MaxDepth == 1       \* nesting depth of the expression trees given to compute
MaxConst == 2       \* largest literal of those trees

(***************************************************************************)
(* bignum.rs                                                               *)
(***************************************************************************)
U4_MASK == 15
ZeroByte == 48      \* b'0'
DotByte == 46       \* b'.'

\* u8 arithmetic
U8(x) == x % 256

\* x & U4_MASK: the mask is 2^4 - 1, so the bitwise and keeps x modulo 2^4
MaskU4(x) == x % (U4_MASK + 1)

\* the number of zero digits at the end of data (the loop of trim_data)
RECURSIVE to_trim(_)
to_trim(data) ==
    IF Len(data) = 0 \/ data[Len(data)] # 0 THEN 0
    ELSE 1 + to_trim(SubSeq(data, 1, Len(data) - 1))

\* trim_data with the truncation left out
trim_data_keeps_zeros(data) == data

trim_data(data) == SubSeq(data, 1, Len(data) - to_trim(data))

new == [left |-> <<>>, right |-> <<>>]

from_raw(l, r) == [left |-> trim_data(l), right |-> trim_data(r)]

\* the loop of add_left from (0-based) index k - 1 on, with the carry so far
RECURSIVE add_left_loop(_, _, _, _)
add_left_loop(l, other, k, carry) ==
    IF k > Len(other) THEN l
    ELSE IF Len(l) > k - 1
         THEN LET tmp == U8(other[k] + l[k] + carry)
              IN  add_left_loop([l EXCEPT ![k] = MaskU4(tmp)], other, k + 1,
                                IF tmp > 9 THEN 1 ELSE 0)
         ELSE LET tmp == U8(other[k] + carry)
              IN  add_left_loop(Append(l, MaskU4(tmp)), other, k + 1,
                                IF tmp > 9 THEN 1 ELSE 0)

add_left(self, other) == [self EXCEPT !.left = add_left_loop(self.left, other, 1, 0)]

\* the first half of add_right: the digits pushed onto self.right, and offset
add_right_dif(r, other) == Len(other) - Len(r)

add_right_pad(r, other) ==
    IF Len(other) > Len(r)
    THEN r \o SubSeq(other, add_right_dif(r, other) + 1, Len(other))
    ELSE r

add_right_offset(r, other) ==
    IF Len(other) > Len(r) THEN add_right_dif(r, other) ELSE 0

\* the second loop of add_right at (0-based) index k, counting down, with the
\* carry so far; at index 0 the digit is pushed onto self.left and the loop ends
RECURSIVE add_right_loop(_, _, _, _)
add_right_loop(self, other, k, carry) ==
    IF k < 0 THEN self
    ELSE IF k > 0
         THEN LET tmp == U8(other[k + 1] + self.right[k + 1] + carry)
              IN  add_right_loop([self EXCEPT !.right[k + 1] = MaskU4(tmp)], other, k - 1,
                                 IF tmp > 9 THEN 1 ELSE 0)
         ELSE LET tmp == U8(other[1] + carry)
              IN  [self EXCEPT !.left = Append(self.left, MaskU4(tmp))]

add_right(self, other) ==
    LET offset == add_right_offset(self.right, other)
        padded == [self EXCEPT !.right = add_right_pad(self.right, other)]
    IN  add_right_loop(padded, other, Len(other) - offset - 1, 0)

\* str::split: the pieces of s between the occurrences of sep
RECURSIVE split(_, _)
split(s, sep) ==
    IF \A k \in 1..Len(s) : s[k] # sep THEN <<s>>
    ELSE LET p == CHOOSE k \in 1..Len(s) : s[k] = sep /\ \A j \in 1..(k - 1) : s[j] # sep
         IN  <<SubSeq(s, 1, p - 1)>> \o split(SubSeq(s, p + 1, Len(s)), sep)

Reverse(s) == [k \in 1..Len(s) |-> s[Len(s) + 1 - k]]

\* whether some `*n - 48` of the piece overflows u8
SubOverflows(piece) == \E k \in 1..Len(piece) : piece[k] < ZeroByte

\* the piece mapped by `|n| *n - 48` in wrapping u8 arithmetic
MinusZeroByte(piece) == [k \in 1..Len(piece) |-> U8(piece[k] + 256 - ZeroByte)]

\* <BigNum as FromStr>::from_str.  The two arguments of from_raw are evaluated
\* in order; `*n - 48` on a byte below 48 panics when the build checks
\* overflow and wraps when it does not; divided_string[1] panics when the text
\* holds no '.'.
from_str(s, checks) ==
    LET divided_string == split(s, DotByte)
    IN  IF checks /\ SubOverflows(divided_string[1])
        THEN [status |-> "Panic", why |-> "attempt to subtract with overflow"]
        ELSE IF Len(divided_string) < 2
        THEN [status |-> "Panic", why |-> "index out of bounds"]
        ELSE IF checks /\ SubOverflows(divided_string[2])
        THEN [status |-> "Panic", why |-> "attempt to subtract with overflow"]
        ELSE LET n == from_raw(Reverse(MinusZeroByte(divided_string[1])),
                               MinusZeroByte(divided_string[2]))
             IN  [status |-> "Ok", left |-> n.left, right |-> n.right]

(***************************************************************************)
(* The BigNum state machine: a BigNum built by from_raw, then add_left and *)
(* add_right calls on it.                                                  *)
(***************************************************************************)
IdleOp == [op |-> "none", preLeft |-> <<>>, preRight |-> <<>>, other |-> <<>>]

NumIdle == left = <<>> /\ right = <<>> /\ lastOp = IdleOp /\ nops = 0

NumInit ==
    \E l \in DigitSeqs, r \in DigitSeqs :
        /\ left = from_raw(l, r).left
        /\ right = from_raw(l, r).right
        /\ lastOp = [op |-> "from_raw", preLeft |-> l, preRight |-> r, other |-> <<>>]
        /\ nops = 0

AddLeft ==
    \E other \in DigitSeqs :
        /\ nops < MaxOps
        /\ left' = add_left([left |-> left, right |-> right], other).left
        /\ right' = add_left([left |-> left, right |-> right], other).right
        /\ lastOp' = [op |-> "add_left", preLeft |-> left, preRight |-> right, other |-> other]
        /\ nops' = nops + 1

AddRight ==
    \E other \in DigitSeqs :
        /\ nops < MaxOps
        /\ left' = add_right([left |-> left, right |-> right], other).left
        /\ right' = add_right([left |-> left, right |-> right], other).right
        /\ lastOp' = [op |-> "add_right", preLeft |-> left, preRight |-> right, other |-> other]
        /\ nops' = nops + 1

ParseIdle == text = <<>> /\ parsed = [status |-> "none"] /\ overflowChecks = FALSE
LexIdle == chars = <<>> /\ i = 0 /\ tokens = <<>> /\ lexResult = [status |-> "none"]
PrintIdle == vars = <<>> /\ listing = <<>>
ComputeIdle == expr = [kind |-> "none"] /\ computed = [status |-> "none"]

Init == NumInit /\ ParseIdle /\ LexIdle /\ PrintIdle /\ ComputeIdle

Next ==
    \/ AddLeft /\ UNCHANGED <<parseVars, lexVars, printVars, computeVars>>
    \/ AddRight /\ UNCHANGED <<parseVars, lexVars, printVars, computeVars>>

Spec == Init /\ [][Next]_allVars

(***************************************************************************)
(* Parsing: a text is handed to from_str once, under either build.         *)
(***************************************************************************)
ParseInit ==
    /\ text \in Texts
    /\ overflowChecks \in BOOLEAN
    /\ parsed = [status |-> "none"]

FromStr ==
    /\ parsed.status = "none"
    /\ parsed' = from_str(text, overflowChecks)
    /\ UNCHANGED <<text, overflowChecks>>

InitParse == NumIdle /\ ParseInit /\ LexIdle /\ PrintIdle /\ ComputeIdle

NextParse == FromStr /\ UNCHANGED <<numVars, lexVars, printVars, computeVars>>

SpecParse == InitParse /\ [][NextParse]_allVars

(***************************************************************************)
(* lexer.rs.  A string is a sequence of one-character strings.             *)
(***************************************************************************)
UpperLetters == <<"A", "B", "C", "D", "E", "F", "G", "H", "I", "J", "K", "L", "M",
                  "N", "O", "P", "Q", "R", "S", "T", "U", "V", "W", "X", "Y", "Z">>
LowerLetters == <<"a", "b", "c", "d", "e", "f", "g", "h", "i", "j", "k", "l", "m",
                  "n", "o", "p", "q", "r", "s", "t", "u", "v", "w", "x", "y", "z">>
DigitChars == <<"0", "1", "2", "3", "4", "5", "6", "7", "8", "9">>

Range(s) == {s[k] : k \in 1..Len(s)}

\* char::is_whitespace, char::is_digit(10), char::is_alphabetic on ASCII
is_whitespace(c) == c \in {" ", "\t", "\n", "\r"}
is_digit(c) == c \in Range(DigitChars)
is_alphabetic(c) == c \in Range(UpperLetters) \cup Range(LowerLetters)

\* the first ten arms of the match in tokenize
OperatorChars == {"+", "-", "*", "/", "%", "^", "(", ")", "|", "="}

OperatorOf(c) ==
    CASE c = "+" -> "Plus"
      [] c = "-" -> "Minus"
      [] c = "*" -> "Star"
      [] c = "/" -> "Slash"
      [] c = "%" -> "Percent"
      [] c = "^" -> "Caret"
      [] c = "(" -> "LParen"
      [] c = ")" -> "RParen"
      [] c = "|" -> "Pipe"
      [] c = "=" -> "Equals"

\* str::to_lowercase with every letter left as it is
to_lowercase_identity(str) == str

\* str::to_lowercase
to_lowercase(str) ==
    [k \in 1..Len(str) |->
        IF \E j \in 1..26 : UpperLetters[j] = str[k]
        THEN LowerLetters[CHOOSE j \in 1..26 : UpperLetters[j] = str[k]]
        ELSE str[k]]

\* the index (1-based) one past the run of characters satisfying the loop
\* condition that starts at from: the inner `while i < chars.len() && ...`
RECURSIVE NumberRunEnd(_, _)
NumberRunEnd(cs, from) ==
    IF from <= Len(cs) /\ (is_digit(cs[from]) \/ cs[from] = ".")
    THEN NumberRunEnd(cs, from + 1)
    ELSE from

RECURSIVE IdentifierRunEnd(_, _)
IdentifierRunEnd(cs, from) ==
    IF from <= Len(cs) /\ is_alphabetic(cs[from])
    THEN IdentifierRunEnd(cs, from + 1)
    ELSE from

DigitValue(c) == (CHOOSE k \in 1..10 : DigitChars[k] = c) - 1

\* str::parse::<f64> on a string of digits and '.': it fails unless the string
\* holds at most one '.' and at least one digit
ParsesAsF64(str) ==
    /\ Cardinality({k \in 1..Len(str) : str[k] = "."}) <= 1
    /\ \E k \in 1..Len(str) : is_digit(str[k])

\* the digits of str read as one integer
RECURSIVE DigitsValue(_)
DigitsValue(str) ==
    IF Len(str) = 0 THEN 0
    ELSE IF str[Len(str)] = "." THEN DigitsValue(SubSeq(str, 1, Len(str) - 1))
    ELSE DigitValue(str[Len(str)]) + 10 * DigitsValue(SubSeq(str, 1, Len(str) - 1))

\* mant / 10^exp in lowest terms of ten
RECURSIVE Reduce10(_, _)
Reduce10(mant, exp) ==
    IF exp > 0 /\ mant % 10 = 0 THEN Reduce10(mant \div 10, exp - 1)
    ELSE [mant |-> mant, exp |-> exp]

\* the value str::parse::<f64> gives, as mant / 10^exp (the literals of the
\* model are short enough for distinct decimals to be distinct f64 values)
ParseF64(str) ==
    LET dot == {k \in 1..Len(str) : str[k] = "."}
        fraction == IF dot = {} THEN 0 ELSE Len(str) - (CHOOSE k \in dot : TRUE)
    IN  Reduce10(DigitsValue(str), fraction)

\* the match on the lowercased identifier
WordToken(lowered) ==
    CASE lowered = <<"p", "i">> -> [type |-> "Constant", val |-> "Pi"]
      [] lowered = <<"e">> -> [type |-> "Constant", val |-> "E"]
      [] lowered = <<"s", "q", "r", "t">> -> [type |-> "Function", val |-> "Sqrt"]
      [] lowered = <<"s", "i", "n">> -> [type |-> "Function", val |-> "Sin"]
      [] lowered = <<"c", "o", "s">> -> [type |-> "Function", val |-> "Cos"]
      [] lowered = <<"t", "a", "n">> -> [type |-> "Function", val |-> "Tan"]
      [] lowered = <<"l", "o", "g">> -> [type |-> "Function", val |-> "Log"]
      [] lowered = <<"a", "b", "s">> -> [type |-> "Function", val |-> "Abs"]
      [] OTHER -> [type |-> "Identifier", val |-> lowered]

(***************************************************************************)
(* tokenize as a state machine: one action per iteration of its outer      *)
(* loop, by the branch the iteration takes.  i is the 0-based scan index.  *)
(***************************************************************************)
LexInit ==
    /\ chars \in Inputs
    /\ i = 0
    /\ tokens = <<>>
    /\ lexResult = [status |-> "none"]

Scanning == lexResult.status = "none" /\ i < Len(chars)

LexOperator ==
    /\ Scanning
    /\ chars[i + 1] \in OperatorChars
    /\ tokens' = Append(tokens, [type |-> "Operator", val |-> OperatorOf(chars[i + 1])])
    /\ i' = i + 1
    /\ UNCHANGED <<chars, lexResult>>

LexWhitespace ==
    /\ Scanning
    /\ chars[i + 1] \notin OperatorChars
    /\ is_whitespace(chars[i + 1])
    /\ i' = i + 1
    /\ UNCHANGED <<chars, tokens, lexResult>>

LexNumber ==
    /\ Scanning
    /\ chars[i + 1] \notin OperatorChars
    /\ ~is_whitespace(chars[i + 1])
    /\ is_digit(chars[i + 1]) \/ chars[i + 1] = "."
    /\ LET end == NumberRunEnd(chars, i + 2)
           number_string == SubSeq(chars, i + 1, end - 1)
       IN  /\ i' = end - 1
           /\ IF ParsesAsF64(number_string)
              THEN /\ tokens' = Append(tokens, [type |-> "Number",
                                                val |-> ParseF64(number_string)])
                   /\ UNCHANGED lexResult
              ELSE /\ lexResult' = [status |-> "Err",
                                    err |-> [code |-> "InvalidNumber",
                                             arg |-> number_string]]
                   /\ UNCHANGED tokens
    /\ UNCHANGED chars

LexIdentifier ==
    /\ Scanning
    /\ chars[i + 1] \notin OperatorChars
    /\ ~is_whitespace(chars[i + 1])
    /\ ~(is_digit(chars[i + 1]) \/ chars[i + 1] = ".")
    /\ is_alphabetic(chars[i + 1])
    /\ LET end == IdentifierRunEnd(chars, i + 2)
           full_identifier == SubSeq(chars, i + 1, end - 1)
       IN  /\ i' = end - 1
           /\ tokens' = Append(tokens, WordToken(to_lowercase(full_identifier)))
    /\ UNCHANGED <<chars, lexResult>>

LexInvalidCharacter ==
    /\ Scanning
    /\ chars[i + 1] \notin OperatorChars
    /\ ~is_whitespace(chars[i + 1])
    /\ ~(is_digit(chars[i + 1]) \/ chars[i + 1] = ".")
    /\ ~is_alphabetic(chars[i + 1])
    /\ lexResult' = [status |-> "Err",
                     err |-> [code |-> "InvalidCharacter", arg |-> chars[i + 1]]]
    /\ UNCHANGED <<chars, i, tokens>>

LexReturn ==
    /\ lexResult.status = "none"
    /\ i >= Len(chars)
    /\ lexResult' = [status |-> "Ok", tokens |-> tokens]
    /\ UNCHANGED <<chars, i, tokens>>

InitLex == NumIdle /\ ParseIdle /\ LexInit /\ PrintIdle /\ ComputeIdle

NextLex ==
    \/ LexOperator /\ UNCHANGED <<numVars, parseVars, printVars, computeVars>>
    \/ LexWhitespace /\ UNCHANGED <<numVars, parseVars, printVars, computeVars>>
    \/ LexNumber /\ UNCHANGED <<numVars, parseVars, printVars, computeVars>>
    \/ LexIdentifier /\ UNCHANGED <<numVars, parseVars, printVars, computeVars>>
    \/ LexInvalidCharacter /\ UNCHANGED <<numVars, parseVars, printVars, computeVars>>
    \/ LexReturn /\ UNCHANGED <<numVars, parseVars, printVars, computeVars>>

SpecLex == InitLex /\ [][NextLex]_allVars

(***************************************************************************)
(* bin/main.rs: get_variant_ord and print_vars.  A Variant is              *)
(* [kind |-> "Num", n |-> value] or [kind |-> "Function"]; the variable    *)
(* map is a function from the bound identifiers to Variants.               *)
(***************************************************************************)
\* get_variant_ord with the two arms exchanged
get_variant_ord_swapped(v) == IF v.kind = "Num" THEN 0 ELSE 1

get_variant_ord(v) ==
    CASE v.kind = "Num" -> 1
      [] v.kind = "Function" -> 0

\* one step of a stable sort: pair goes behind every pair that does not
\* compare greater than it
InsertByOrd(sorted, pair) ==
    LET n == Cardinality({k \in 1..Len(sorted) :
                            get_variant_ord(sorted[k][2]) <= get_variant_ord(pair[2])})
    IN  SubSeq(sorted, 1, n) \o <<pair>> \o SubSeq(sorted, n + 1, Len(sorted))

\* vars.sort_by(|(_, v1), (_, v2)| get_variant_ord(v1).cmp(&get_variant_ord(v2))):
\* slice::sort_by is stable
RECURSIVE sort_by(_)
sort_by(pairs) ==
    IF Len(pairs) = 0 THEN <<>>
    ELSE InsertByOrd(sort_by(SubSeq(pairs, 1, Len(pairs) - 1)), pairs[Len(pairs)])

\* the line print_vars prints for one binding: "id = n" or "id(..)"
FormatVar(pair) ==
    IF pair[2].kind = "Num" THEN <<pair[1], " = ", pair[2].n>>
    ELSE <<pair[1], "(..)">>

\* print_vars, given the order in which the map's iterator yields its entries
print_vars(collected) ==
    LET sorted == sort_by(collected)
    IN  [k \in 1..Len(sorted) |-> FormatVar(sorted[k])]

Variants == [kind : {"Num"}, n : 0..MaxNum] \cup [kind : {"Function"}]

VarMaps == UNION {[bound -> Variants] : bound \in SUBSET Ids}

\* the orders in which the iterator of map m may yield its entries
IterationOrders(m) ==
    {order \in [1..Cardinality(DOMAIN m) -> DOMAIN m] :
        \A a, b \in 1..Cardinality(DOMAIN m) : a # b => order[a] # order[b]}

PrintInit == vars \in VarMaps /\ listing = <<>>

PrintVars ==
    \E order \in IterationOrders(vars) :
        /\ listing' = print_vars([k \in 1..Len(order) |-> <<order[k], vars[order[k]]>>])
        /\ UNCHANGED vars

InitVars == NumIdle /\ ParseIdle /\ LexIdle /\ PrintInit /\ ComputeIdle

NextVars == PrintVars /\ UNCHANGED <<numVars, parseVars, lexVars, computeVars>>

SpecVars == InitVars /\ [][NextVars]_allVars

(***************************************************************************)
(* computer.rs: compute.  An Expr is a record: Constant(num),              *)
(* Identifier(id), Neg(e), BinOp(op, l, r), Function(function, e).  The    *)
(* trees drawn hold integer literals, the operators whose f64 result on    *)
(* integers is an integer (Plus, Minus, Star), an operator compute does    *)
(* not implement (Caret) and the function Abs; f64 values are integers.    *)
(***************************************************************************)
Panic == [status |-> "Panic", why |-> "not implemented"]

Value(n) == [status |-> "Value", val |-> n]

RECURSIVE compute(_)
compute(e) ==
    CASE e.kind = "Constant" -> Value(e.num)
      [] e.kind = "Identifier" -> Value(0)
      [] e.kind = "Neg" ->
            LET v == compute(e.e)
            IN  IF v.status = "Panic" THEN v ELSE Value(0 - v.val)
      [] e.kind = "BinOp" ->
            LET lnum == compute(e.l)
                rnum == compute(e.r)
            IN  IF lnum.status = "Panic" THEN lnum
                ELSE IF rnum.status = "Panic" THEN rnum
                ELSE CASE e.op = "Plus" -> Value(lnum.val + rnum.val)
                       [] e.op = "Minus" -> Value(lnum.val - rnum.val)
                       [] e.op = "Star" -> Value(lnum.val * rnum.val)
                       [] OTHER -> Panic
      [] e.kind = "Function" ->
            LET num == compute(e.e)
            IN  IF num.status = "Panic" THEN num
                ELSE CASE e.function = "Abs" ->
                            Value(IF num.val < 0 THEN 0 - num.val ELSE num.val)

IdentifierNames == {"x", "y"}
BinOps == {"Plus", "Minus", "Star", "Caret"}

Leaves ==
    [kind : {"Constant"}, num : 0..MaxConst] \cup [kind : {"Identifier"}, id : IdentifierNames]

RECURSIVE Exprs(_)
Exprs(depth) ==
    IF depth = 0 THEN Leaves
    ELSE LET sub == Exprs(depth - 1)
         IN  sub \cup [kind : {"Neg"}, e : sub]
                 \cup [kind : {"BinOp"}, op : BinOps, l : sub, r : sub]
                 \cup [kind : {"Function"}, function : {"Abs"}, e : sub]

ComputeInit == expr \in Exprs(MaxDepth) /\ computed = [status |-> "none"]

Compute ==
    /\ computed.status = "none"
    /\ computed' = compute(expr)
    /\ UNCHANGED expr

InitCompute == NumIdle /\ ParseIdle /\ LexIdle /\ PrintIdle /\ ComputeInit

NextCompute == Compute /\ UNCHANGED <<numVars, parseVars, lexVars, printVars>>

SpecCompute == InitCompute /\ [][NextCompute]_allVars

(***************************************************************************)
(* Claims about BigNum (checked under Spec).                               *)
(***************************************************************************)
RECURSIVE Pow10(_)
Pow10(n) == IF n = 0 THEN 1 ELSE 10 * Pow10(n - 1)

\* the number a little-endian integer digit sequence denotes
RECURSIVE IntValue(_)
IntValue(l) == IF Len(l) = 0 THEN 0 ELSE l[1] + 10 * IntValue(Tail(l))

\* the number a most-significant-first fraction digit sequence denotes, in
\* units of 10^-scale (scale >= Len(r))
RECURSIVE FracValue(_, _)
FracValue(r, scale) ==
    IF Len(r) = 0 THEN 0
    ELSE r[1] * Pow10(scale - 1) + FracValue(Tail(r), scale - 1)

DecimalValue(l, r, scale) == IntValue(l) * Pow10(scale) + FracValue(r, scale)

AllDecimal(s) == \A k \in 1..Len(s) : s[k] \in 0..9

Normalized(s) == Len(s) = 0 \/ s[Len(s)] # 0

Max(a, b) == IF a > b THEN a ELSE b

\* C1: after add_right on a receiver of digits 0-9 with an operand of digits
\* 0-9, the receiver denotes the receiver before plus 0.<operand>: a carry out
\* of the most-significant fractional digit goes into the integer part.
C1_AddRightIsDecimalSum ==
    (lastOp.op = "add_right" /\ AllDecimal(lastOp.preLeft) /\ AllDecimal(lastOp.preRight)
        /\ AllDecimal(lastOp.other))
    => LET scale == Max(Len(right), Max(Len(lastOp.preRight), Len(lastOp.other)))
       IN  DecimalValue(left, right, scale)
             = DecimalValue(lastOp.preLeft, lastOp.preRight, scale)
               + FracValue(lastOp.other, scale)

\* C2: after add_left(b) on integer digits a (a and b little-endian, all
\* digits 0-9) the receiver's integer digits denote value(a) + value(b): no
\* operand digit and no carry is lost.
C2_AddLeftIsSum ==
    (lastOp.op = "add_left" /\ AllDecimal(lastOp.preLeft) /\ AllDecimal(lastOp.other))
    => IntValue(left) = IntValue(lastOp.preLeft) + IntValue(lastOp.other)

\* C3: in every state of a BigNum both digit sequences are normalized: neither
\* the integer digits nor the fraction digits end in a 0.
C3_AlwaysNormalized == Normalized(left) /\ Normalized(right)

\* C10: starting from digits 0-9 and adding operands of digits 0-9, every
\* stored digit stays in 0..9.
C10_DigitsStayDecimal == AllDecimal(left) /\ AllDecimal(right)

(***************************************************************************)
(* Claims about from_str (checked under SpecParse).                        *)
(***************************************************************************)
IsDigitByte(b) == b \in 48..57

HasDot(s) == \E k \in 1..Len(s) : s[k] = DotByte

HasNonDigit(s) == \E k \in 1..Len(s) : s[k] # DotByte /\ ~IsDigitByte(s[k])

\* s is I ++ "." ++ F for digit strings I and F
IsDecimalText(s) ==
    /\ Cardinality({k \in 1..Len(s) : s[k] = DotByte}) = 1
    /\ ~HasNonDigit(s)

Zeros(k) == [j \in 1..k |-> ZeroByte]

\* C4: from_str of a text with no '.' or with a character that is not a
\* decimal digit returns an error value: it neither panics nor returns Ok.
C4_MalformedTextIsErr ==
    (parsed.status # "none" /\ (~HasDot(text) \/ HasNonDigit(text)))
    => parsed.status = "Err"

\* C5: the parse of I.F is the parse of I.F followed by any number of zeros.
C5_TrailingZerosIgnored ==
    (parsed.status # "none" /\ IsDecimalText(text))
    => \A k \in 0..MaxZeros :
          /\ from_str(text \o Zeros(k), overflowChecks) = parsed
          /\ parsed.status = "Ok"

\* a text I.F whose F ends in a zero has been parsed, and the zero is gone
C5_Witness ==
    /\ parsed.status = "Ok"
    /\ IsDecimalText(text)
    /\ text[Len(text)] = ZeroByte
    /\ Len(parsed.right) > 0
    /\ Len(parsed.right) < Len(split(text, DotByte)[2])

(***************************************************************************)
(* Claims about tokenize (checked under SpecLex).                          *)
(***************************************************************************)
Accepted(c) ==
    c \in OperatorChars \/ is_whitespace(c) \/ is_digit(c) \/ c = "." \/ is_alphabetic(c)

HasUnaccepted == \E k \in 1..Len(chars) : ~Accepted(chars[k])

\* the (1-based) place of the first character no rule accepts
FirstUnaccepted ==
    CHOOSE k \in 1..Len(chars) : ~Accepted(chars[k]) /\ \A j \in 1..(k - 1) : Accepted(chars[j])

InvalidNumberReported ==
    lexResult.status = "Err" /\ lexResult.err.code = "InvalidNumber"

\* C6: when tokenize has returned, the input holds a character no rule
\* accepts and nothing before it failed to lex, the result is the error
\* InvalidCharacter(c) for the first such character c, carrying the span
\* [offset, offset + 1) of c.
C6_InvalidCharacterWithSpan ==
    (lexResult.status # "none" /\ HasUnaccepted /\ ~InvalidNumberReported)
    => /\ lexResult.status = "Err"
       /\ lexResult.err.code = "InvalidCharacter"
       /\ lexResult.err.arg = chars[FirstUnaccepted]
       /\ "span" \in DOMAIN lexResult.err
       /\ lexResult.err.span = <<FirstUnaccepted - 1, FirstUnaccepted>>

\* the maximal runs of alphabetic characters of cs from place from on, as
\* pairs of first and last place
RECURSIVE AlphaRuns(_, _)
AlphaRuns(cs, from) ==
    IF from > Len(cs) THEN <<>>
    ELSE IF ~is_alphabetic(cs[from]) THEN AlphaRuns(cs, from + 1)
    ELSE LET last == CHOOSE k \in from..Len(cs) :
                        /\ \A j \in from..k : is_alphabetic(cs[j])
                        /\ (k = Len(cs) \/ ~is_alphabetic(cs[k + 1]))
         IN  <<[first |-> from, last |-> last]>> \o AlphaRuns(cs, last + 1)

ConstantNames == {<<"p", "i">>, <<"e">>}
FunctionNames == {<<"s", "q", "r", "t">>, <<"s", "i", "n">>, <<"c", "o", "s">>,
                  <<"t", "a", "n">>, <<"l", "o", "g">>, <<"a", "b", "s">>}

\* a word with its letters in lower case, letter by letter
Lowered(word) ==
    [k \in 1..Len(word) |->
        IF word[k] \in Range(UpperLetters)
        THEN LowerLetters[CHOOSE j \in 1..26 : UpperLetters[j] = word[k]]
        ELSE word[k]]

ExpectedKind(word) ==
    IF Lowered(word) \in ConstantNames THEN "Constant"
    ELSE IF Lowered(word) \in FunctionNames THEN "Function"
    ELSE "Identifier"

IsWordToken(t) == t.type \in {"Constant", "Function", "Identifier"}

\* C7: the tokens tokenize has emitted for words are, in order, one per
\* maximal alphabetic run scanned so far, each of the kind its lowercased
\* text selects (constant, else built-in function, else identifier); the scan
\* index never stops inside a run.
C7_OneTokenPerAlphabeticRun ==
    LET runs == AlphaRuns(chars, 1)
        scanned == SelectSeq(runs, LAMBDA r : r.last <= i)
        words == SelectSeq(tokens, IsWordToken)
    IN  /\ \A k \in 1..Len(runs) : ~(runs[k].first <= i /\ i < runs[k].last)
        /\ Len(words) = Len(scanned)
        /\ \A k \in 1..Len(words) :
              words[k].type = ExpectedKind(SubSeq(chars, scanned[k].first, scanned[k].last))
        /\ lexResult.status = "Ok" => lexResult.tokens = tokens /\ Len(scanned) = Len(runs)

\* tokenize has returned the tokens of an input that spells a constant with
\* an upper-case letter
C7_Witness ==
    /\ lexResult.status = "Ok"
    /\ \E k \in 1..Len(chars) : chars[k] \in Range(UpperLetters)
    /\ \E k \in 1..Len(lexResult.tokens) : lexResult.tokens[k].type = "Constant"

(***************************************************************************)
(* Claims about print_vars (checked under SpecVars).                       *)
(***************************************************************************)
IsNumLine(line) == Len(line) = 3
IsFunctionLine(line) == Len(line) = 2

\* C8 as stated: in the printed listing every numeric binding comes before
\* every user-defined function.
C8_ValuesBeforeFunctions ==
    \A a, b \in 1..Len(listing) :
        (IsNumLine(listing[a]) /\ IsFunctionLine(listing[b])) => a < b

\* C8 as amended: in the printed listing every user-defined function comes
\* before every numeric binding, and every binding of the map is listed once.
C8_FunctionsBeforeValues ==
    Len(listing) > 0
    => /\ \A a, b \in 1..Len(listing) :
             (IsFunctionLine(listing[a]) /\ IsNumLine(listing[b])) => a < b
       /\ Len(listing) = Cardinality(DOMAIN vars)
       /\ \A id \in DOMAIN vars :
             \E k \in 1..Len(listing) :
                /\ listing[k][1] = id
                /\ IsNumLine(listing[k]) <=> vars[id].kind = "Num"

\* a map holding a value and a function has been printed
C8_Witness ==
    /\ \E k \in 1..Len(listing) : IsNumLine(listing[k])
    /\ \E k \in 1..Len(listing) : IsFunctionLine(listing[k])

(***************************************************************************)
(* Claims about compute (checked under SpecCompute).                       *)
(***************************************************************************)
RECURSIVE IdentifiersOf(_)
IdentifiersOf(e) ==
    CASE e.kind = "Constant" -> {}
      [] e.kind = "Identifier" -> {e.id}
      [] e.kind = "Neg" -> IdentifiersOf(e.e)
      [] e.kind = "BinOp" -> IdentifiersOf(e.l) \cup IdentifiersOf(e.r)
      [] e.kind = "Function" -> IdentifiersOf(e.e)

\* C9: computing a tree that holds an identifier (compute binds none) yields
\* the error VarDoesNotExist naming an identifier of the tree, never a number.
C9_IdentifierIsError ==
    (computed.status # "none" /\ IdentifiersOf(expr) # {})
    => /\ computed.status = "Err"
       /\ computed.err.code = "VarDoesNotExist"
       /\ computed.err.id \in IdentifiersOf(expr)

====
